---- MODULE Spec2Model ----
(***************************************************************************)
(* Model of src/src/write_queue.rs: the shared Inner state (queue,         *)
(* sender_count, task), the Sender handle operations (clone, drop, send,   *)
(* len) and the WriteQueue driver (Future::poll).  Every handler is one    *)
(* atomic action: the program is single threaded (Rc<RefCell<..>>).        *)
(***************************************************************************)
EXTENDS Integers, Sequences, FiniteSets, TLC

\* ---------------------------------------------------------------- bounds
MaxSends == 3
MaxHandles == 2

\* The queue never inspects or compares a message (M is a type parameter), so
\* the k-th call of send is given the message k: all messages are distinct.
Message(k) == k
HandleIds == 1..MaxHandles

VARIABLES
    queue,          \* Inner.queue : VecDeque<(M, Complete<M>)>
    sender_count,   \* Inner.sender_count
    task,           \* Inner.task : Option<Task>  (TRUE = Some)
    state,          \* WriteQueue.state tag
    writing,        \* payload of State::Writing: the message held by the write, and its Complete
    handles,        \* the Sender values that exist
    woken,          \* the driver's task has been unparked and not polled since
    result,         \* what the last poll returned ("None" before the first)
    trace           \* history: send calls, driver events and the drop of the
                    \* last handle, in program order

vars == <<queue, sender_count, task, state, writing, handles, woken, result, trace>>

\* payload of a state that is not Writing
NoWrite == [m |-> 0, c |-> 0]

Event(e, c, m, h, w) == [ev |-> e, c |-> c, m |-> m, h |-> h, woke |-> w]

\* ------------------------------------------------------- history helpers
RECURSIVE SelectEv(_, _)
SelectEv(tr, e) ==
    IF tr = <<>> THEN <<>>
    ELSE IF Head(tr).ev = e
         THEN <<[c |-> Head(tr).c, m |-> Head(tr).m]>> \o SelectEv(Tail(tr), e)
         ELSE SelectEv(Tail(tr), e)

Sends    == SelectEv(trace, "send")
Starts   == SelectEv(trace, "start")
Dones    == SelectEv(trace, "done")
Resolves == SelectEv(trace, "resolve")
Fails    == SelectEv(trace, "fail")

IsPrefix(s, t) == Len(s) <= Len(t) /\ \A i \in 1..Len(s) : s[i] = t[i]

\* ------------------------------------------------------------------ Init
\* write_queue(writer)
Init ==
    /\ queue = <<>>
    /\ sender_count = 1
    /\ task = FALSE
    /\ state = "BetweenWrites"
    /\ writing = NoWrite
    /\ handles = {1}
    /\ woken = TRUE
    /\ result = "None"
    /\ trace = <<>>

\* --------------------------------------------------------------- Sender
\* mutant: the clone does not count itself
Clone_noCount(h) ==
    /\ h \in handles
    /\ Cardinality(handles) < MaxHandles
    /\ handles' = handles \cup {CHOOSE n \in HandleIds \ handles :
                                   \A k \in HandleIds \ handles : n <= k}
    /\ UNCHANGED <<sender_count, queue, task, state, writing, woken, result, trace>>

\* impl Clone for Sender
Clone(h) ==
    /\ h \in handles
    /\ Cardinality(handles) < MaxHandles
    /\ sender_count' = sender_count + 1
    /\ handles' = handles \cup {CHOOSE n \in HandleIds \ handles :
                                   \A k \in HandleIds \ handles : n <= k}
    /\ UNCHANGED <<queue, task, state, writing, woken, result, trace>>

\* mutant: the drop of the last handle clears the queue
Drop_discard(h) ==
    /\ h \in handles
    /\ sender_count' = sender_count - 1
    /\ handles' = handles \ {h}
    /\ queue' = IF sender_count - 1 = 0 THEN <<>> ELSE queue
    /\ trace' = IF sender_count - 1 = 0
                THEN Append(trace, Event("closed", 0, 0, h, FALSE))
                ELSE trace
    /\ UNCHANGED <<task, state, writing, woken, result>>

\* mutant: the drop of the last handle takes the task and unparks it
Drop_unpark(h) ==
    /\ h \in handles
    /\ sender_count' = sender_count - 1
    /\ handles' = handles \ {h}
    /\ task' = IF sender_count - 1 = 0 THEN FALSE ELSE task
    /\ woken' = IF sender_count - 1 = 0 THEN (woken \/ task) ELSE woken
    /\ trace' = IF sender_count - 1 = 0
                THEN Append(trace, Event("closed", 0, 0, h, FALSE))
                ELSE trace
    /\ UNCHANGED <<queue, state, writing, result>>

\* impl Drop for Sender
Drop(h) ==
    /\ h \in handles
    /\ sender_count' = sender_count - 1
    /\ handles' = handles \ {h}
    /\ trace' = IF sender_count - 1 = 0
                THEN Append(trace, Event("closed", 0, 0, h, FALSE))
                ELSE trace
    /\ UNCHANGED <<queue, task, state, writing, woken, result>>

\* mutant: send unparks the task and leaves it in the slot
SendEffect_noTake(q, t, wk, entry) ==
    [queue |-> Append(q, entry), task |-> t, woken |-> (wk \/ t)]

\* mutant: send takes the task and does not unpark it
SendEffect_noUnpark(q, t, wk, entry) ==
    [queue |-> Append(q, entry), task |-> FALSE, woken |-> wk]

\* mutant: send puts the message at the head of the queue
SendEffect_pushFront(q, t, wk, entry) ==
    [queue |-> <<entry>> \o q, task |-> FALSE, woken |-> (wk \/ t)]

\* the (queue, task, woken) after Sender::send's push_back and task.take()
SendEffect(q, t, wk, entry) ==
    [queue |-> Append(q, entry), task |-> FALSE, woken |-> (wk \/ t)]

\* Sender::send
Send(h) ==
    /\ h \in handles
    /\ Len(Sends) < MaxSends
    /\ LET c == Len(Sends) + 1
           m == Message(c)
           r == SendEffect(queue, task, woken, [m |-> m, c |-> c])
       IN /\ queue' = r.queue
          /\ task' = r.task
          /\ woken' = r.woken
          /\ trace' = Append(trace, Event("send", c, m, h, task))
    /\ UNCHANGED <<sender_count, state, writing, handles, result>>

\* mutant: len counts the write in flight
len_withInFlight == Len(queue) + (IF state = "Writing" THEN 1 ELSE 0)

\* Sender::len
len == Len(queue)

\* ---------------------------------------------------------------- driver
\* What one call of poll works on: the driver's state, the shared Inner and
\* the history; ret = "loop" while the loop of poll is still running.
PollStart ==
    [state |-> state, writing |-> writing, queue |-> queue,
     sender_count |-> sender_count, task |-> task, trace |-> trace,
     ret |-> "loop"]

\* The outcomes of polling the in-flight serialize::Write, for the successive
\* polls made during one call of WriteQueue::poll: the first o.n complete,
\* the one after them is o.last.
Oracles == [n : 0..(MaxSends + 1), last : {"NotReady", "Err"}]
WriteOutcome(o, i) == IF i <= o.n THEN "Ready" ELSE o.last

\* the message a completed serialize::Write hands back with the writer
WriteResult(w) == w.m

\* mutant: the Complete is dropped instead of completed
WriteDone_skipComplete(s, m) ==
    [s EXCEPT !.state = "BetweenWrites", !.writing = NoWrite]

\* IntermediateState::WriteDone(m, w)
WriteDone(s, m) ==
    IF s.state = "Writing"
    THEN [s EXCEPT !.state = "BetweenWrites",
                   !.writing = NoWrite,
                   !.trace = Append(@, Event("resolve", s.writing.c, m, 0, FALSE))]
    ELSE [s EXCEPT !.state = "BetweenWrites", !.writing = NoWrite, !.ret = "Panic"]

\* mutant: the new state is not stored, the driver is left in Empty
StartWrite_leaveEmpty(s, front) ==
    [s EXCEPT !.state = "Empty",
              !.trace = Append(@, Event("start", front.c, front.m, 0, FALSE))]

\* mutant: the driver starts the write and stays in BetweenWrites
StartWrite_keepState(s, front) ==
    [s EXCEPT !.writing = front,
              !.trace = Append(@, Event("start", front.c, front.m, 0, FALSE))]

\* IntermediateState::StartWrite(m, c)
StartWrite(s, front) ==
    IF s.state = "BetweenWrites"
    THEN [s EXCEPT !.state = "Writing",
                   !.writing = front,
                   !.trace = Append(@, Event("start", front.c, front.m, 0, FALSE))]
    ELSE [s EXCEPT !.state = "Empty", !.writing = NoWrite, !.ret = "Panic"]

\* IntermediateState::Resolve
Resolve(s) ==
    IF s.state = "BetweenWrites"
    THEN [s EXCEPT !.state = "Empty", !.ret = "Ready"]
    ELSE [s EXCEPT !.state = "Empty", !.writing = NoWrite, !.ret = "Panic"]

\* mutant: the token is resolved while its write is still pending
OnWriting_completeEarly(s, out) ==
    IF out = "NotReady"
    THEN [s EXCEPT !.ret = "NotReady",
                   !.trace = Append(@, Event("resolve", s.writing.c, s.writing.m, 0, FALSE))]
    ELSE IF out = "Err"
    THEN [s EXCEPT !.ret = "Err",
                   !.trace = Append(@, Event("fail", s.writing.c, s.writing.m, 0, FALSE))]
    ELSE WriteDone([s EXCEPT !.trace = Append(@, Event("done", s.writing.c,
                                                      WriteResult(s.writing), 0, FALSE))],
                   WriteResult(s.writing))

\* mutant: a failed write is given up and the driver goes on with the queue
OnWriting_errSkipped(s, out) ==
    IF out = "NotReady" THEN [s EXCEPT !.ret = "NotReady"]
    ELSE IF out = "Err"
    THEN [s EXCEPT !.state = "BetweenWrites",
                   !.writing = NoWrite,
                   !.trace = Append(@, Event("fail", s.writing.c, s.writing.m, 0, FALSE))]
    ELSE WriteDone([s EXCEPT !.trace = Append(@, Event("done", s.writing.c,
                                                      WriteResult(s.writing), 0, FALSE))],
                   WriteResult(s.writing))

\* mutant: a failed write is taken for a completed one
OnWriting_errIgnored(s, out) ==
    IF out = "NotReady" THEN [s EXCEPT !.ret = "NotReady"]
    ELSE IF out = "Err"
    THEN WriteDone([s EXCEPT !.trace = Append(@, Event("fail", s.writing.c,
                                                      s.writing.m, 0, FALSE))],
                   WriteResult(s.writing))
    ELSE WriteDone([s EXCEPT !.trace = Append(@, Event("done", s.writing.c,
                                                      WriteResult(s.writing), 0, FALSE))],
                   WriteResult(s.writing))

\* State::Writing arm: try_ready!(Future::poll(write))
OnWriting(s, out) ==
    IF out = "NotReady" THEN [s EXCEPT !.ret = "NotReady"]
    ELSE IF out = "Err"
    THEN [s EXCEPT !.ret = "Err",
                   !.trace = Append(@, Event("fail", s.writing.c, s.writing.m, 0, FALSE))]
    ELSE WriteDone([s EXCEPT !.trace = Append(@, Event("done", s.writing.c,
                                                      WriteResult(s.writing), 0, FALSE))],
                   WriteResult(s.writing))

\* mutant: the driver parks its task whenever it is in BetweenWrites
OnBetweenWrites_parkAlways(s) ==
    IF s.queue # <<>>
    THEN StartWrite([s EXCEPT !.queue = Tail(@), !.task = TRUE], Head(s.queue))
    ELSE IF s.sender_count = 0
         THEN Resolve(s)
         ELSE [s EXCEPT !.task = TRUE, !.ret = "NotReady"]

\* mutant: the driver pops two messages and writes the first
OnBetweenWrites_popTwo(s) ==
    IF s.queue # <<>>
    THEN StartWrite([s EXCEPT !.queue = IF Len(@) >= 2 THEN Tail(Tail(@)) ELSE Tail(@)],
                    Head(s.queue))
    ELSE IF s.sender_count = 0
         THEN Resolve(s)
         ELSE [s EXCEPT !.task = TRUE, !.ret = "NotReady"]

\* mutant: the driver terminates while one handle is still alive
OnBetweenWrites_countLeOne(s) ==
    IF s.queue # <<>>
    THEN StartWrite([s EXCEPT !.queue = Tail(@)], Head(s.queue))
    ELSE IF s.sender_count <= 1
         THEN Resolve(s)
         ELSE [s EXCEPT !.task = TRUE, !.ret = "NotReady"]

\* mutant: the driver returns NotReady without parking its task
OnBetweenWrites_noPark(s) ==
    IF s.queue # <<>>
    THEN StartWrite([s EXCEPT !.queue = Tail(@)], Head(s.queue))
    ELSE IF s.sender_count = 0
         THEN Resolve(s)
         ELSE [s EXCEPT !.ret = "NotReady"]

\* mutant: sender_count is looked at before the queue
OnBetweenWrites_countFirst(s) ==
    IF s.sender_count = 0
    THEN Resolve(s)
    ELSE IF s.queue # <<>>
         THEN StartWrite([s EXCEPT !.queue = Tail(@)], Head(s.queue))
         ELSE [s EXCEPT !.task = TRUE, !.ret = "NotReady"]

\* State::BetweenWrites arm
OnBetweenWrites(s) ==
    IF s.queue # <<>>
    THEN StartWrite([s EXCEPT !.queue = Tail(@)], Head(s.queue))
    ELSE IF s.sender_count = 0
         THEN Resolve(s)
         ELSE [s EXCEPT !.task = TRUE, !.ret = "NotReady"]

\* one turn of the loop of poll
Iter(s, out) ==
    CASE s.state = "Writing"       -> OnWriting(s, out)
      [] s.state = "BetweenWrites" -> OnBetweenWrites(s)
      [] OTHER                     -> [s EXCEPT !.ret = "Panic"]

\* the loop of WriteQueue::poll; i counts the polls of the write future
\* (each turn's outcome is bound as a value before the next turn uses it)
RECURSIVE PollLoop(_, _, _)
PollLoop(s, o, i) ==
    IF s.ret # "loop" THEN s
    ELSE CHOOSE r \in {PollLoop(n, o, IF s.state = "Writing" THEN i + 1 ELSE i) :
                            n \in {Iter(s, WriteOutcome(o, i))}} : TRUE

\* the driver may be polled until it has returned Ready or Err
Running == result \in {"None", "NotReady"}

\* WriteQueue::poll, the write polls answering as o says
PollWith(o) ==
    /\ Running
    /\ \E s \in {PollLoop(PollStart, o, 1)} :
          /\ state' = s.state
          /\ writing' = s.writing
          /\ queue' = s.queue
          /\ task' = s.task
          /\ trace' = s.trace
          /\ result' = s.ret
    /\ woken' = FALSE
    /\ UNCHANGED <<sender_count, handles>>

Poll == \E o \in Oracles : PollWith(o)

\* the pending write becomes able to progress and its task is unparked
ReactorWake ==
    /\ state = "Writing"
    /\ result = "NotReady"
    /\ ~woken
    /\ woken' = TRUE
    /\ UNCHANGED <<queue, sender_count, task, state, writing, handles, result, trace>>

\* ------------------------------------------------------- specifications
SendAny == \E h \in HandleIds : Send(h)
CloneAny == \E h \in HandleIds : Clone(h)
DropAny == \E h \in HandleIds : Drop(h)

Next == SendAny \/ CloneAny \/ DropAny \/ Poll \/ ReactorWake

Spec == Init /\ [][Next]_vars

\* The runs in which no write fails, every blocked write becomes writable
\* again, and a driver that was unparked is polled until its writes complete.
OkOracles == {o \in Oracles : o.last = "NotReady"}
AllReady == [n |-> MaxSends + 1, last |-> "NotReady"]
PollOk == \E o \in OkOracles : PollWith(o)
PollWokenReady == woken /\ PollWith(AllReady)

NextOk == SendAny \/ CloneAny \/ DropAny \/ PollOk \/ ReactorWake

FairSpec ==
    /\ Init /\ [][NextOk]_vars
    /\ WF_vars(ReactorWake)
    /\ SF_vars(PollWokenReady)

TypeOK ==
    /\ state \in {"BetweenWrites", "Writing", "Empty"}
    /\ result \in {"None", "NotReady", "Ready", "Err"}
    /\ sender_count \in 0..MaxHandles
    /\ Len(queue) <= MaxSends

\* ------------------------------------------------------------ properties
EvAt(e) == {i \in DOMAIN trace : trace[i].ev = e}
EvOf(e, c) == {i \in DOMAIN trace : trace[i].ev = e /\ trace[i].c = c}

\* C1: FIFO order. The messages for which the driver has started a write
\* are, in order, a prefix of the messages in the order of the send calls,
\* whichever handle made each call.
C1_FifoOrder == IsPrefix(Starts, Sends)

\* two handles have sent, interleaved, and the driver has started writes
C1_Witness ==
    /\ Len(Starts) >= 2
    /\ \E i, j \in EvAt("send") : i < j /\ trace[i].h # trace[j].h

\* C2: no write overlap. At most one write is in flight, the driver is in
\* Writing exactly while one is, and every write was started when all the
\* writes started before it had completed.
InFlight == Len(Starts) - Len(Dones)
C2_NoWriteOverlap ==
    /\ InFlight \in {0, 1}
    /\ (InFlight = 1) <=> (state = "Writing")
    /\ (state = "Writing") <=> (writing # NoWrite)
    /\ \A i \in EvAt("start") :
          Cardinality({j \in EvAt("start") : j < i}) = Cardinality({j \in EvAt("done") : j < i})
    /\ result # "Panic"

\* a second write has started while messages were waiting
C2_Witness == state = "Writing" /\ Len(Starts) >= 2 /\ queue # <<>>

\* C3: exactly-once completion. The token of every message whose write
\* completed is resolved exactly once, with the message that was sent with
\* it; no token is resolved twice and none is resolved without its write
\* having completed.
C3_ExactlyOnceCompletion ==
    /\ \A i \in EvAt("done") : Cardinality(EvOf("resolve", trace[i].c)) = 1
    /\ \A i \in EvAt("resolve") :
          /\ trace[i].c \in 1..Len(Sends)
          /\ trace[i].m = Sends[trace[i].c].m
          /\ Cardinality(EvOf("resolve", trace[i].c)) = 1
          /\ EvOf("done", trace[i].c) # {}

\* two messages with different values have been written and resolved
C3_Witness ==
    /\ Len(Resolves) >= 2
    /\ Resolves[1].m # Resolves[2].m

\* C4: termination safety. When the driver has resolved with the sink,
\* pending is empty, no write is in flight, none has failed and no handle is
\* alive; the driver never leaves its loop through an unreachable arm.
C4_TerminationSafety ==
    /\ result = "Ready" =>
          /\ queue = <<>>
          /\ sender_count = 0
          /\ handles = {}
          /\ InFlight = 0
          /\ writing = NoWrite
          /\ Fails = <<>>
    /\ result # "Panic"

\* the driver has terminated after having written messages
C4_Witness == result = "Ready" /\ Len(Dones) >= 2

\* C5: termination on last handle drop. Once pending is empty, no write is
\* in flight and sender_count is 0, the driver eventually resolves with the
\* sink.
C5_TerminatesAfterLastDrop ==
    (queue = <<>> /\ state = "BetweenWrites" /\ sender_count = 0) ~> (result = "Ready")

\* C6: no missed wake-up. A driver that rests in BetweenWrites with a
\* message pending has been unparked, a continuation registered by a driver
\* that has not terminated means that pending is empty, and every message sent is eventually written, the
\* completed writes following the order of the send calls.
NoMissedWakeup ==
    /\ (Running /\ state = "BetweenWrites" /\ queue # <<>>) => woken
    /\ (Running /\ task) => (queue = <<>> /\ state = "BetweenWrites")
C6_NoMissedWakeup ==
    /\ []NoMissedWakeup
    /\ \A c \in 1..MaxSends :
          (Len(Sends) >= c) ~> (Len(Dones) >= c /\ IsPrefix(Dones, Sends))

\* a send found the driver suspended and unparked it, the next send found
\* the slot empty, and both messages have been written
C6_Witness ==
    \E i \in EvAt("send") :
        /\ trace[i].woke
        /\ i + 1 \in EvAt("send")
        /\ ~trace[i + 1].woke
        /\ Len(Dones) >= trace[i + 1].c

\* C7: completion ordering. A token is resolved right after its own write
\* has completed, hence after that write was started, and the write of a
\* later message starts only after the tokens of all the messages started
\* before it have been resolved.
C7_CompletionOrdering ==
    /\ \A i \in EvAt("resolve") :
          /\ i - 1 \in EvOf("done", trace[i].c)
          /\ \E j \in EvOf("start", trace[i].c) : j < i
    /\ \A i \in EvAt("start") : \A j \in EvAt("start") :
          j < i => \E k \in EvOf("resolve", trace[j].c) : j < k /\ k < i

\* a second write has started after the first token was resolved
C7_Witness == Len(Resolves) >= 1 /\ Len(Starts) >= 2 /\ state = "Writing"

\* C8: write failure is fatal. A write fails exactly when poll returns Err;
\* the driver then stays in Writing with the failed write, nothing is
\* started after the failure, and the token of the message that was being
\* written is not resolved.
C8_WriteFailureFatal ==
    /\ (Fails # <<>>) <=> (result = "Err")
    /\ \A i \in EvAt("fail") :
          /\ Len(Fails) = 1
          /\ state = "Writing"
          /\ writing.c = trace[i].c
          /\ EvOf("resolve", trace[i].c) = {}
          /\ EvOf("done", trace[i].c) = {}
          /\ \A j \in DOMAIN trace : j > i => trace[j].ev \in {"send", "closed"}

\* a write has failed while another message was pending
C8_Witness == result = "Err" /\ queue # <<>> /\ Len(Resolves) >= 1

\* C9: drain after all handles are dropped. Dropping a handle leaves pending
\* as it is, and when the last handle has gone with messages still pending,
\* the driver eventually resolves with the sink, having written every
\* message sent and resolved its token, in the order of the send calls.
C9_DrainAfterDrop ==
    /\ [][sender_count' < sender_count => queue' = queue]_vars
    /\ (sender_count = 0 /\ queue # <<>>) ~>
          (result = "Ready" /\ Starts = Sends /\ Resolves = Sends)

\* three messages were sent, then the only handle was dropped before the
\* driver had started a write, and the driver has terminated
C9_Witness ==
    /\ result = "Ready"
    /\ Len(trace) >= 4
    /\ \A i \in 1..3 : trace[i].ev = "send"
    /\ trace[4].ev = "closed"
    /\ Len(Resolves) = 3

\* C10: len is the length of pending, the write in flight not counted: the
\* number of send calls made minus the number of writes started.
C10_LenExcludesInFlight == len = Len(Sends) - Len(Starts)

\* a write is in flight and messages are pending
C10_Witness == state = "Writing" /\ len >= 1

\* C11: after a write failure the messages that were pending when it failed
\* are dropped: no write is started after the failure, so none of them is
\* written, and their tokens are not resolved.
PendingAt(i) ==
    {c \in 1..Len(Sends) : /\ \E j \in EvOf("send", c) : j < i
                           /\ \A j \in EvOf("start", c) : j > i}
C11_PendingDroppedAfterFailure ==
    \A i \in EvAt("fail") :
        /\ \A j \in EvAt("start") : j < i
        /\ \A c \in PendingAt(i) :
              /\ EvOf("start", c) = {}
              /\ EvOf("done", c) = {}
              /\ EvOf("resolve", c) = {}
              /\ \E k \in DOMAIN queue : queue[k].c = c

\* a write has failed with a message pending, after an earlier write
\* had completed and every handle had been dropped
C11_Witness ==
    \E i \in EvAt("fail") : Cardinality(PendingAt(i)) >= 1 /\ Len(Resolves) >= 1 /\ handles = {}

\* C12: the task slot is present only while pending is empty, no write is
\* in flight and a handle is alive.
C12_TaskOnlyWhileIdle ==
    task => (queue = <<>> /\ state = "BetweenWrites" /\ sender_count > 0)

\* C13 as stated: whenever poll has returned, the driver state is
\* BetweenWrites or Writing.
C13_NeverEmptyAtReturn ==
    result # "None" => state \in {"BetweenWrites", "Writing"}

\* C13 amended: the driver state is Empty exactly when poll has returned
\* Ready (the sink was moved out of the state); after NotReady or Err it is
\* BetweenWrites or Writing, and poll never meets Empty.
C13_EmptyOnlyAfterReady ==
    /\ (state = "Empty") <=> (result = "Ready")
    /\ result \in {"None", "NotReady", "Err"} => state \in {"BetweenWrites", "Writing"}
    /\ result # "Panic"

\* the driver has terminated after a write and left Empty behind
C13_Witness == result = "Ready" /\ state = "Empty" /\ Len(Resolves) >= 1

\* C14: frame of clone and drop. A step that changes the set of handles
\* changes sender_count by one, up for a clone and down for a drop, and
\* leaves pending, the driver state, the write in flight, the task slot, the
\* wake-up and the driver's result as they are; nothing is started or
\* resolved by it.
DriverEvents(tr) == SelectEv(tr, "start") \o SelectEv(tr, "done") \o
                    SelectEv(tr, "resolve") \o SelectEv(tr, "fail")
C14_CloneDropFrame ==
    [][handles' # handles =>
          /\ \/ /\ Cardinality(handles') = Cardinality(handles) + 1
                /\ sender_count' = sender_count + 1
             \/ /\ Cardinality(handles') = Cardinality(handles) - 1
                /\ sender_count' = sender_count - 1
          /\ queue' = queue
          /\ state' = state
          /\ writing' = writing
          /\ task' = task
          /\ woken' = woken
          /\ result' = result
          /\ SelectEv(trace', "send") = Sends
          /\ DriverEvents(trace') = DriverEvents(trace)]_vars

\* the last handle, a clone, was dropped while the driver was suspended with
\* its task registered: it is neither woken nor terminated
C14_Witness ==
    /\ handles = {}
    /\ task /\ ~woken /\ result = "NotReady"
    /\ Len(trace) >= 1 /\ trace[Len(trace)].ev = "closed" /\ trace[Len(trace)].h = 2
    /\ Len(Resolves) >= 1

\* C15: a spurious wake is tolerated. A poll in BetweenWrites with pending
\* empty and a handle alive returns NotReady, leaves the driver state,
\* pending and sender_count as they are, starts and resolves nothing, and
\* leaves the task registered.
C15_SpuriousWake ==
    [][(Poll /\ state = "BetweenWrites" /\ queue = <<>> /\ sender_count > 0) =>
          /\ result' = "NotReady"
          /\ state' = "BetweenWrites"
          /\ writing' = NoWrite
          /\ queue' = <<>>
          /\ sender_count' = sender_count
          /\ handles' = handles
          /\ trace' = trace
          /\ task']_vars

\* the driver was polled with nothing ever sent and two handles alive, and
\* is suspended with its task registered
C15_Witness ==
    /\ result = "NotReady" /\ task /\ ~woken
    /\ state = "BetweenWrites"
    /\ trace = <<>>
    /\ sender_count = 2

\* C16: sender_count is the number of Sender handles that exist: it is never
\* negative, it is 0 exactly when no handle is left, and once 0 it stays 0.
C16_SenderCount ==
    /\ [](/\ sender_count = Cardinality(handles)
          /\ sender_count >= 0
          /\ (sender_count = 0) <=> (handles = {}))
    /\ [][sender_count = 0 => sender_count' = 0]_vars

\* the original handle was cloned and both handles have been dropped, the
\* clone last
C16_Witness ==
    /\ sender_count = 0
    /\ Len(trace) >= 1 /\ trace[Len(trace)].ev = "closed" /\ trace[Len(trace)].h = 2
    /\ result \in {"None", "NotReady"}

\* C17: the wake token is single-owner. A registered task and a pending
\* wake-up never coexist, a send that finds the task takes it and unparks it
\* in the same step, and a send that directly follows another send finds the
\* slot empty.
C17_WakeTokenSingleOwner ==
    /\ [](~(task /\ woken))
    /\ []  (\A i \in EvAt("send") : (i + 1) \in EvAt("send") => ~trace[i + 1].woke)
    /\ [][(task /\ SelectEv(trace', "send") # Sends) => (~task' /\ woken')]_vars
    /\ [][(~task /\ SelectEv(trace', "send") # Sends) => (~task' /\ woken' = woken)]_vars

\* three sends in a row while the driver was suspended: the first unparked
\* it, the next two found the slot empty
C17_Witness ==
    \E i \in EvAt("send") :
        /\ trace[i].woke
        /\ (i + 1) \in EvAt("send") /\ ~trace[i + 1].woke
        /\ (i + 2) \in EvAt("send") /\ ~trace[i + 2].woke

\* C18 as stated: a poll returns NotReady only with pending empty and a
\* handle alive.
C18_SuspendsOnlyWhenIdle ==
    [][(Poll /\ result' = "NotReady") => (queue' = <<>> /\ sender_count > 0)]_vars

\* C18 amended: a poll returns NotReady either in Writing, its write not
\* being ready, and then leaves the task slot as it was, or in BetweenWrites
\* with pending empty and a handle alive, and then has registered its task;
\* the task is registered by no other step.
C18_SuspendsIdleOrWriting ==
    /\ [][(Poll /\ result' = "NotReady") =>
             \/ /\ state' = "Writing"
                /\ task' = task
             \/ /\ state' = "BetweenWrites"
                /\ queue' = <<>>
                /\ sender_count > 0
                /\ task']_vars
    /\ [][(~task /\ task') =>
             /\ Poll
             /\ result' = "NotReady"
             /\ state' = "BetweenWrites"
             /\ queue' = <<>>
             /\ sender_count > 0]_vars

\* the driver has returned NotReady from a blocked write with a message
\* pending and no task registered
C18_Witness ==
    /\ result = "NotReady" /\ ~woken
    /\ state = "Writing"
    /\ queue # <<>>
    /\ ~task

\* C19: message conservation. While no write has failed, the messages whose
\* tokens are resolved, then the message being written, then pending, are
\* together the messages sent, in the order of the send calls: each message
\* is in exactly one of the three places.
Entry(x) == [c |-> x.c, m |-> x.m]
Placed ==
    Resolves \o (IF state = "Writing" THEN <<Entry(writing)>> ELSE <<>>)
             \o [k \in 1..Len(queue) |-> Entry(queue[k])]
C19_MessageConservation ==
    Fails = <<>> =>
        /\ Placed = Sends
        /\ Len(Sends) = Len(queue) + InFlight + Len(Resolves)
        /\ InFlight \in {0, 1}

\* one message is resolved, one is being written and one is pending
C19_Witness ==
    /\ Fails = <<>>
    /\ Len(Resolves) >= 1 /\ state = "Writing" /\ Len(queue) >= 1

\* C20: completeness at termination. When the driver has resolved with the
\* sink, every message sent has been written and its token resolved, no
\* handle is left, and from then on nothing is sent.
C20_CompleteAtTermination ==
    /\ [](result = "Ready" =>
             /\ Starts = Sends
             /\ Dones = Sends
             /\ Resolves = Sends
             /\ handles = {}
             /\ sender_count = 0)
    /\ [][result = "Ready" =>
             /\ result' = "Ready"
             /\ SelectEv(trace', "send") = Sends
             /\ queue' = queue
             /\ handles' = {}]_vars

\* the last handle was dropped while messages were still to be written, and
\* the driver has terminated after resolving the last of them
C20_Witness ==
    /\ result = "Ready"
    /\ Len(Sends) >= 2
    /\ \E i \in EvAt("closed") : \E j \in EvAt("start") : i < j

====
